---- MODULE Spec2Model ----
(***************************************************************************)
(* A model of uqbar's unique ordered tree container                        *)
(* (uqbar/containers/UniqueTreeList.py on top of UniqueTreeNode).          *)
(*                                                                         *)
(* Nodes are integers.  1..NumLists are UniqueTreeList objects, the next   *)
(* NumLeaves integers are plain UniqueTreeNode objects.  None is Python's  *)
(* None, Junk is an object that is not a UniqueTreeNode.                   *)
(***************************************************************************)
EXTENDS Integers, Sequences, FiniteSets, TLC

NumLists == 3
NumLeaves == 1
MaxNew == 2
MaxOps == 3
MaxOpsWithReads == 2
MaxGenerators == 1

None == 0
Junk == 0 - 1
NoName == "none"

Lists == 1..NumLists
Leaves == (NumLists + 1)..(NumLists + NumLeaves)
Nodes == Lists \cup Leaves
Names == {"a", "b"}

\* The name each object was constructed with (UniqueTreeNode.__init__(name=...)).
NameOf(n) ==
    CASE n % 3 = 1 -> "a"
      [] n % 3 = 2 -> "b"
      [] OTHER -> NoName

VARIABLES children, parent, named, cached_order, dirty, last, steps, iter

vars == <<children, parent, named, cached_order, dirty, last, steps, iter>>

\* The heap as one value: ch = _children, par = _parent, nm = _named_children
\* (a dict; a name that is no key of the dict is mapped to the empty set),
\* ord = the cached graph_order of each node, drt = its "needs update" flag.
State == [ch |-> children, par |-> parent, nm |-> named, ord |-> cached_order, drt |-> dirty]

EmptyIndex == [N \in Names |-> {}]

(***************************************************************************)
(* Python list and slice primitives                                        *)
(***************************************************************************)

Range(s) == {s[k] : k \in 1..Len(s)}

Min(a, b) == IF a < b THEN a ELSE b

\* One bound of slice(...).indices(n) for a step of 1.
ClampIndex(x, n) ==
    IF x < 0
    THEN (IF x + n < 0 THEN 0 ELSE x + n)
    ELSE (IF x > n THEN n ELSE x)

\* list[s:e] for 0 <= s, 0 <= e (0-based, e exclusive).
ListSlice(seq, s, e) == SubSeq(seq, Min(s, Len(seq)) + 1, Min(e, Len(seq)))

\* list.__setitem__(slice(at, at), items) for at >= 0.
ListSplice(seq, at, items) ==
    LET k == Min(at, Len(seq))
    IN SubSeq(seq, 1, k) \o items \o SubSeq(seq, k + 1, Len(seq))

\* 0-based position of the first element identical to x, or -1.
FirstIndex(seq, x) ==
    IF \E k \in 1..Len(seq) : seq[k] = x
    THEN (CHOOSE k \in 1..Len(seq) : seq[k] = x /\ \A j \in 1..(k - 1) : seq[j] # x) - 1
    ELSE 0 - 1

\* list.remove(x): drops the first occurrence.
ListRemove(seq, x) ==
    LET k == FirstIndex(seq, x)
    IN IF k < 0 THEN seq ELSE SubSeq(seq, 1, k) \o SubSeq(seq, k + 2, Len(seq))

(***************************************************************************)
(* UniqueTreeNode: parentage, name caching and reparenting                 *)
(***************************************************************************)

RECURSIVE ParentageFrom(_, _, _)
ParentageFrom(st, n, fuel) ==
    IF n = None \/ fuel = 0
    THEN <<>>
    ELSE <<n>> \o ParentageFrom(st, st.par[n], fuel - 1)

\* node.parentage: the node, its parent, ... up to the root.
Parentage(st, n) == ParentageFrom(st, n, NumLists + NumLeaves + 1)

\* The proper ancestors of n: parentage[1:].
Ancestors(st, n) == Range(Parentage(st, n)) \ {n}

\* The ultimate root of n.
Root(st, n) == LET p == Parentage(st, n) IN p[Len(p)]

\* Every node of the tree n belongs to: the nodes with the same root.
Tree(st, n) == LET r == Root(st, n) IN {m \in Nodes : Root(st, m) = r}

\* c.index(x): the 0-based position, or -1 where the code raises ValueError.
Index(st, c, x) == FirstIndex(st.ch[c], x)

\* The value of graph_order computed from the structure: the positions along
\* the path from the root.
RECURSIVE GraphOrderFrom(_, _, _)
GraphOrderFrom(st, n, fuel) ==
    IF st.par[n] = None \/ fuel = 0
    THEN <<>>
    ELSE GraphOrderFrom(st, st.par[n], fuel - 1) \o <<Index(st, st.par[n], n)>>

GraphOrder(st, n) == GraphOrderFrom(st, n, NumLists + NumLeaves + 1)

\* node._mark_entire_tree_for_later_update()
MarkEntireTreeForLaterUpdate(st, n) ==
    LET tree == Tree(st, n)
    IN [st EXCEPT !.drt = [m \in Nodes |-> IF m \in tree THEN TRUE ELSE st.drt[m]]]

\* The lazy update a read of node.graph_order runs first: a dirty node has
\* its whole tree recomputed from the root.
UpdateGraphOrder(st, n) ==
    LET tree == Tree(st, n)
    IN IF st.drt[n]
       THEN [st EXCEPT
               !.ord = [m \in Nodes |-> IF m \in tree THEN GraphOrder(st, m) ELSE st.ord[m]],
               !.drt = [m \in Nodes |-> IF m \in tree THEN FALSE ELSE st.drt[m]]]
       ELSE st

\* UniqueTreeNode._cache_named_children: the node under its own name.
NodeCacheNamedChildren(st, n) ==
    [N \in Names |-> IF NameOf(n) = N THEN {n} ELSE {}]

\* UniqueTreeList._cache_named_children: the inherited dictionary, where every
\* name that is a key of the list's own _named_children is then assigned a
\* copy of that entry.
ListCacheNamedChildren(st, n) ==
    LET name_dictionary == NodeCacheNamedChildren(st, n)
    IN [N \in Names |->
          IF st.nm[n][N] # {} THEN st.nm[n][N] ELSE name_dictionary[N]]

CacheNamedChildren(st, n) ==
    IF n \in Lists THEN ListCacheNamedChildren(st, n) ELSE NodeCacheNamedChildren(st, n)

\* The cached names leave the index of every proper ancestor.
RemoveNamedChildrenFromParentage(st, n, cache) ==
    LET ancestors == Ancestors(st, n)
    IN [st EXCEPT !.nm =
          [p \in Lists |->
              IF p \in ancestors
              THEN [N \in Names |-> st.nm[p][N] \ cache[N]]
              ELSE st.nm[p]]]

\* The cached names join the index of every proper ancestor.
RestoreNamedChildrenToParentage(st, n, cache) ==
    LET ancestors == Ancestors(st, n)
    IN [st EXCEPT !.nm =
          [p \in Lists |->
              IF p \in ancestors
              THEN [N \in Names |-> st.nm[p][N] \cup cache[N]]
              ELSE st.nm[p]]]

\* The node leaves the children of its parent (first occurrence) and has no
\* parent any more.
RemoveFromParent(st, n) ==
    LET p == st.par[n]
    IN IF p = None
       THEN st
       ELSE [st EXCEPT !.ch[p] = ListRemove(st.ch[p], n), !.par[n] = None]

\* node._set_parent(new_parent)
SetParent(st, n, new_parent) ==
    LET s0 == MarkEntireTreeForLaterUpdate(st, n)
        cache == CacheNamedChildren(s0, n)
        s1 == RemoveNamedChildrenFromParentage(s0, n, cache)
        s2 == RemoveFromParent(s1, n)
        s3 == [s2 EXCEPT !.par[n] = new_parent]
    IN RestoreNamedChildrenToParentage(s3, n, cache)

(***************************************************************************)
(* UniqueTreeList: the mutation protocol                                   *)
(***************************************************************************)

\* _prepare_setitem_multiple / _prepare_setitem_single
PrepareSetitemMultiple(expr) == expr

PrepareSetitemSingle(expr) == <<expr>>

\* _validate_setitem_expr: "ok", or the ValueError the first offending
\* candidate raises ("BadKind": not a UniqueTreeNode, "ParentAsChild": a
\* member of the receiver's parentage).
RECURSIVE ValidateFrom(_, _)
ValidateFrom(parentage, new_items) ==
    IF new_items = <<>>
    THEN "ok"
    ELSE IF Head(new_items) \notin Nodes
         THEN "BadKind"
         ELSE IF Head(new_items) \in parentage
              THEN "ParentAsChild"
              ELSE ValidateFrom(parentage, Tail(new_items))

\* Variant: only the receiver itself is refused, not its ancestors.
ValidateSetitemExprSelfOnly(st, c, new_items) ==
    ValidateFrom({c}, new_items)

ValidateSetitemExpr(st, c, new_items) ==
    ValidateFrom(Range(Parentage(st, c)), new_items)

\* Both ValueErrors of the validation are the InvalidChild failure.
InvalidChild(err) == err \in {"BadKind", "ParentAsChild"}

RECURSIVE DetachAll(_, _)
DetachAll(st, old_items) ==
    IF old_items = <<>>
    THEN st
    ELSE DetachAll(SetParent(st, Head(old_items), None), Tail(old_items))

RECURSIVE AttachAll(_, _, _)
AttachAll(st, new_items, c) ==
    IF new_items = <<>>
    THEN st
    ELSE AttachAll(SetParent(st, Head(new_items), c), Tail(new_items), c)

\* _set_items
SetItems(st, c, new_items, old_items, start_index) ==
    LET s1 == DetachAll(st, old_items)
        s2 == AttachAll(s1, new_items, c)
    IN [s2 EXCEPT !.ch[c] = ListSplice(s2.ch[c], start_index, new_items)]

\* Variant: the old items are detached before the candidates are validated.
ReplaceRangeDetachFirst(st, c, s, e, new_items) ==
    LET n == Len(st.ch[c])
        start_index == ClampIndex(s, n)
        stop_index == ClampIndex(e, n)
        old_items == ListSlice(st.ch[c], start_index, stop_index)
        detached == DetachAll(st, old_items)
        verdict == ValidateSetitemExpr(detached, c, new_items)
    IN IF verdict = "ok"
       THEN [st |-> MarkEntireTreeForLaterUpdate(
                        SetItems(detached, c, new_items, <<>>, start_index), c),
             err |-> "ok"]
       ELSE [st |-> detached, err |-> verdict]

\* Variant: the receiver's tree is not marked for update after the change.
ReplaceRangeNoMark(st, c, s, e, new_items) ==
    LET n == Len(st.ch[c])
        start_index == ClampIndex(s, n)
        stop_index == ClampIndex(e, n)
        old_items == ListSlice(st.ch[c], start_index, stop_index)
        verdict == ValidateSetitemExpr(st, c, new_items)
    IN IF verdict = "ok"
       THEN [st |-> SetItems(st, c, new_items, old_items, start_index), err |-> "ok"]
       ELSE [st |-> st, err |-> verdict]

\* The common tail of __setitem__ once the candidate list and the slice are
\* known: indices(), old_items, validation, _set_items.
ReplaceRange(st, c, s, e, new_items) ==
    LET n == Len(st.ch[c])
        start_index == ClampIndex(s, n)
        stop_index == ClampIndex(e, n)
        old_items == ListSlice(st.ch[c], start_index, stop_index)
        verdict == ValidateSetitemExpr(st, c, new_items)
    IN IF verdict = "ok"
       THEN [st |-> MarkEntireTreeForLaterUpdate(
                        SetItems(st, c, new_items, old_items, start_index), c),
             err |-> "ok"]
       ELSE [st |-> st, err |-> verdict]

\* c[i] = x for an integer i
SetItemInt(st, c, i, x) == ReplaceRange(st, c, i, i + 1, PrepareSetitemSingle(x))

\* c[s:e] = new_items
SetItemSlice(st, c, s, e, new_items) ==
    ReplaceRange(st, c, s, e, PrepareSetitemMultiple(new_items))

\* c.__delitem__(i) for an integer i
DelItemInt(st, c, i) ==
    LET j == IF i < 0 THEN Len(st.ch[c]) + i ELSE i
        r == ReplaceRange(st, c, j, j + 1, <<>>)
    IN [st |-> MarkEntireTreeForLaterUpdate(r.st, c), err |-> r.err]

\* c.__delitem__(slice(s, e))
DelItemSlice(st, c, s, e) ==
    LET r == ReplaceRange(st, c, s, e, <<>>)
    IN [st |-> MarkEntireTreeForLaterUpdate(r.st, c), err |-> r.err]

\* The loop of __delitem__(name) over tuple(self._named_children[name]), in
\* the order `order` in which the set is iterated.
RECURSIVE DelEach(_, _)
DelEach(st, order) ==
    IF order = <<>>
    THEN [st |-> st, err |-> "ok"]
    ELSE LET child == Head(order)
             p == st.par[child]
         IN IF p = None
            THEN [st |-> st, err |-> "AttributeError"]
            ELSE IF Index(st, p, child) < 0
                 THEN [st |-> st, err |-> "NotInList"]
                 ELSE DelEach(DelItemInt(st, p, Index(st, p, child)).st, Tail(order))

\* All orders in which a set may be iterated.
Orderings(S) ==
    {seq \in [1..Cardinality(S) -> S] : \A x \in S : \E k \in 1..Cardinality(S) : seq[k] = x}

\* c.__delitem__(name)
DelItemName(st, c, N, order) ==
    IF st.nm[c][N] = {}
    THEN [st |-> st, err |-> "KeyError"]
    ELSE DelEach(st, order)

\* c.append(x), c.extend(xs), c.insert(i, x)
AppendNode(st, c, x) == SetItemSlice(st, c, Len(st.ch[c]), Len(st.ch[c]), <<x>>)

Extend(st, c, xs) == SetItemSlice(st, c, Len(st.ch[c]), Len(st.ch[c]), xs)

Insert(st, c, i, x) == SetItemSlice(st, c, i, i, <<x>>)

\* A list object as UniqueTreeList.__init__ has it before `self[:] = children`:
\* no parent, no children, an empty name index, a cache never computed, and
\* held by no composite.
Fresh(st, c) ==
    /\ st.par[c] = None
    /\ st.ch[c] = <<>>
    /\ st.nm[c] = EmptyIndex
    /\ st.ord[c] = <<>>
    /\ st.drt[c]
    /\ \A p \in Lists : \A k \in 1..Len(st.ch[p]) : st.ch[p][k] # c
    /\ \A p \in Lists : \A N \in Names : c \notin st.nm[p][N]

\* UniqueTreeList(children=xs) for the fresh object c: self[:] = children,
\* where slice(None).indices(len(self)) is (0, len(self)).
Construct(st, c, xs) == SetItemSlice(st, c, 0, Len(st.ch[c]), xs)

\* Is i a valid position of list.__getitem__(i)?
InRange(seq, i) == 0 - Len(seq) <= i /\ i < Len(seq)

\* list.__getitem__(i) for a valid integer i
ListGet(seq, i) == IF i < 0 THEN seq[Len(seq) + i + 1] ELSE seq[i + 1]

\* c.pop(i)
Pop(st, c, i) ==
    IF ~InRange(st.ch[c], i)
    THEN [st |-> st, err |-> "IndexError"]
    ELSE DelItemInt(st, c, i)

\* c.remove(x)
Remove(st, c, x) ==
    IF Index(st, c, x) < 0
    THEN [st |-> st, err |-> "NotInList"]
    ELSE DelItemInt(st, c, Index(st, c, x))

(***************************************************************************)
(* UniqueTreeList: reads                                                   *)
(***************************************************************************)

\* Stands in a yielded sequence for the point where the recursion of a
\* traversal exceeds every depth a tree of these nodes can have (a cycle of
\* children sequences: Python ends the iteration with RecursionError).
Overflow == 0 - 2

\* c.depth_first(top_down), run to exhaustion: the yielded sequence.
RECURSIVE DepthFirstFrom(_, _, _, _)
RECURSIVE DepthFirstOver(_, _, _, _)
DepthFirstFrom(st, c, top_down, fuel) ==
    IF fuel = 0 THEN <<Overflow>> ELSE DepthFirstOver(st, st.ch[c], top_down, fuel)

DepthFirstOver(st, kids, top_down, fuel) ==
    IF kids = <<>>
    THEN <<>>
    ELSE LET child == Head(kids)
             below == IF child \in Lists
                      THEN DepthFirstFrom(st, child, top_down, fuel - 1)
                      ELSE <<>>
             here == IF top_down THEN <<child>> \o below ELSE below \o <<child>>
         IN IF Overflow \in Range(here)
            THEN here
            ELSE here \o DepthFirstOver(st, Tail(kids), top_down, fuel)

DepthFirst(st, c, top_down) == DepthFirstFrom(st, c, top_down, NumLists + 1)

\* c[name]: the members of the index entry, to be sorted by graph_order; the
\* empty set where the code raises KeyError (NameNotFound).
NamedChildren(st, c, N) == st.nm[c][N]

\* Lexicographic order of two graph_order tuples.
RECURSIVE TupleLess(_, _)
TupleLess(a, b) ==
    IF b = <<>> THEN FALSE
    ELSE IF a = <<>> THEN TRUE
    ELSE IF Head(a) # Head(b) THEN Head(a) < Head(b)
    ELSE TupleLess(Tail(a), Tail(b))

\* The results sorted(set, key=graph_order) can return: every arrangement of
\* the set that ascends by graph_order (the order of ties is the set's).
SortedByGraphOrder(st, S) ==
    {seq \in [1..Cardinality(S) -> S] :
        /\ \A x \in S : \E k \in 1..Cardinality(S) : seq[k] = x
        /\ \A i, j \in 1..Cardinality(S) :
              i < j => ~TupleLess(GraphOrder(st, seq[j]), GraphOrder(st, seq[i]))}

\* node.graph_order: the lazy update, then the cached value.
ReadGraphOrder(st, n) ==
    LET s1 == UpdateGraphOrder(st, n)
    IN [st |-> s1, err |-> "ok", value |-> s1.ord[n]]

\* The reads of graph_order that sorting the members of `todo` makes.
RECURSIVE ReadAll(_, _)
ReadAll(st, todo) ==
    IF todo = {}
    THEN st
    ELSE LET m == CHOOSE x \in todo : TRUE
         IN ReadAll(ReadGraphOrder(st, m).st, todo \ {m})

\* Variant: the lookup takes the members out of the index entry as it
\* returns them.
GetItemNameDraining(st, c, N) ==
    IF st.nm[c][N] = {}
    THEN [st |-> st, err |-> "KeyError"]
    ELSE [st |-> [ReadAll(st, st.nm[c][N]) EXCEPT !.nm[c][N] = {}], err |-> "ok"]

\* c[name]: KeyError for a name that is no key; else graph_order of every
\* member is read for the sort.
GetItemName(st, c, N) ==
    IF st.nm[c][N] = {}
    THEN [st |-> st, err |-> "KeyError"]
    ELSE [st |-> ReadAll(st, st.nm[c][N]), err |-> "ok"]

\* The 0-based position list.__getitem__(i) reads for a valid integer i.
Position(seq, i) == IF i < 0 THEN Len(seq) + i ELSE i

\* c[i] for an integer i: list.__getitem__, IndexError outside [-n, n).
GetItemInt(st, c, i) ==
    IF InRange(st.ch[c], i)
    THEN [st |-> st, err |-> "ok", value |-> ListGet(st.ch[c], i)]
    ELSE [st |-> st, err |-> "IndexError", value |-> None]

\* expr in c for a node: the loop over self._children, by identity.
ContainsNode(st, c, x) == \E k \in 1..Len(st.ch[c]) : st.ch[c][k] = x

\* expr in c for a string: is the name a key of self._named_children?
ContainsName(st, c, N) == st.nm[c][N] # {}

\* The concrete class of each list object: UniqueTreeList itself, or (the
\* last list) a subclass of it that overrides nothing.
ListKind(n) == IF n = NumLists THEN "Subclass" ELSE "UniqueTreeList"

\* isinstance(child, type(c)) for a list c
IsInstanceOfTypeOf(child, c) ==
    /\ child \in Lists
    /\ ListKind(c) = "UniqueTreeList" \/ ListKind(child) = ListKind(c)

\* c.recurse(), run to exhaustion: the yielded sequence.
RECURSIVE RecurseFrom(_, _, _)
RECURSIVE RecurseOver(_, _, _, _)
RecurseFrom(st, c, fuel) ==
    IF fuel = 0 THEN <<Overflow>> ELSE RecurseOver(st, c, st.ch[c], fuel)

RecurseOver(st, c, kids, fuel) ==
    IF kids = <<>>
    THEN <<>>
    ELSE LET child == Head(kids)
             below == IF IsInstanceOfTypeOf(child, c)
                      THEN RecurseFrom(st, child, fuel - 1)
                      ELSE <<>>
             here == <<child>> \o below
         IN IF Overflow \in Range(here)
            THEN here
            ELSE here \o RecurseOver(st, c, Tail(kids), fuel)

Recurse(st, c) == RecurseFrom(st, c, NumLists + 1)

\* c.index(x) as an operation: the position, or ValueError.
IndexOf(st, c, x) ==
    IF Index(st, c, x) < 0
    THEN [st |-> st, err |-> "NotInList"]
    ELSE [st |-> st, err |-> "ok"]

\* An operation that only computes: the heap it leaves and its outcome.
Pure(st, outcome) == [st |-> st, err |-> outcome]

\* The outcome of running a traversal to exhaustion.
Exhausted(seq) == IF Overflow \in Range(seq) THEN "RecursionError" ELSE "ok"

\* The outcome of a containment test.
Truth(b) == IF b THEN "True" ELSE "False"

\* A generator object of depth_first or recurse.  kind: which method made
\* it.  phase: "none" (no generator exists), "created" (the call returned,
\* the body has not started), "running", "done" (exhausted), "failed"
\* (RecursionError).  stack: the nested generators, innermost last.  out:
\* what it has yielded.  atcall: what the method yields when run to the end
\* on the heap of the call.  heap: the children lists at the call.  prompt:
\* the body started on the heap of the call, so every mutation fell between
\* two steps.  made: how many generators the behaviour has made.
NoGenerator ==
    [kind |-> "none", phase |-> "none", node |-> None, top_down |-> TRUE,
     stack |-> <<>>, out |-> <<>>, atcall |-> <<>>, heap |-> <<>>,
     prompt |-> TRUE, made |-> 0]

\* c.depth_first(top_down): a generator function only builds the generator.
CallDepthFirst(st, c, top_down) ==
    [kind |-> "depth_first", phase |-> "created", node |-> c,
     top_down |-> top_down, stack |-> <<>>, out |-> <<>>,
     atcall |-> DepthFirst(st, c, top_down), heap |-> st.ch, prompt |-> TRUE,
     made |-> 1]

\* c.recurse(): the same.
CallRecurse(st, c) ==
    [kind |-> "recurse", phase |-> "created", node |-> c, top_down |-> TRUE,
     stack |-> <<>>, out |-> <<>>, atcall |-> Recurse(st, c), heap |-> st.ch,
     prompt |-> TRUE, made |-> 1]

\* The frame of a depth_first generator when its body starts: it iterates
\* tuple(self), a copy, from the first child.  stage is the point reached
\* in the loop body.
NewFrame(st, c) ==
    [node |-> c, kids |-> st.ch[c], i |-> 1, stage |-> "enter", child |-> None]

\* The frame of a recurse generator: it iterates self._children itself
\* through a list iterator, which holds a position; child is the loop
\* variable.
RecurseFrame(c) ==
    [node |-> c, kids |-> <<>>, i |-> 1, stage |-> "enter", child |-> None]

\* Runs the nested depth_first generators on heap st up to the next yield:
\* the stack then, and the node yielded (None at the end, Overflow past the
\* recursion budget).
RECURSIVE Advance(_, _, _, _)
Advance(st, stack, top_down, fuel) ==
    IF stack = <<>>
    THEN [stack |-> <<>>, yielded |-> None]
    ELSE IF fuel = 0
    THEN [stack |-> stack, yielded |-> Overflow]
    ELSE LET d == Len(stack)
             top == stack[d]
             rest == SubSeq(stack, 1, d - 1)
         IN IF top.i > Len(top.kids)
            THEN Advance(st, rest, top_down, fuel - 1)
            ELSE LET child == top.kids[top.i]
                 IN CASE top.stage = "enter" ->
                           IF top_down
                           THEN [stack |-> rest \o <<[top EXCEPT !.stage = "descend"]>>,
                                 yielded |-> child]
                           ELSE Advance(st, rest \o <<[top EXCEPT !.stage = "descend"]>>,
                                        top_down, fuel - 1)
                      [] top.stage = "descend" ->
                           IF child \in Lists
                           THEN Advance(st, rest \o <<[top EXCEPT !.stage = "after"]>>
                                                \o <<NewFrame(st, child)>>,
                                        top_down, fuel - 1)
                           ELSE Advance(st, rest \o <<[top EXCEPT !.stage = "after"]>>,
                                        top_down, fuel - 1)
                      [] OTHER ->
                           LET moved == [top EXCEPT !.i = top.i + 1, !.stage = "enter"]
                           IN IF top_down
                              THEN Advance(st, rest \o <<moved>>, top_down, fuel - 1)
                              ELSE [stack |-> rest \o <<moved>>, yielded |-> child]

\* The same for the nested recurse generators: each step of the loop reads
\* the live list at the iterator's position.
RECURSIVE AdvanceRecurse(_, _, _)
AdvanceRecurse(st, stack, fuel) ==
    IF stack = <<>>
    THEN [stack |-> <<>>, yielded |-> None]
    ELSE IF fuel = 0
    THEN [stack |-> stack, yielded |-> Overflow]
    ELSE LET d == Len(stack)
             top == stack[d]
             rest == SubSeq(stack, 1, d - 1)
         IN IF top.stage = "enter"
            THEN IF top.i > Len(st.ch[top.node])
                 THEN AdvanceRecurse(st, rest, fuel - 1)
                 ELSE LET child == st.ch[top.node][top.i]
                      IN [stack |-> rest \o <<[top EXCEPT !.i = top.i + 1,
                                                          !.stage = "descend",
                                                          !.child = child]>>,
                          yielded |-> child]
            ELSE LET back == [top EXCEPT !.stage = "enter"]
                 IN IF IsInstanceOfTypeOf(top.child, top.node)
                    THEN AdvanceRecurse(st, rest \o <<back>> \o <<RecurseFrame(top.child)>>,
                                        fuel - 1)
                    ELSE AdvanceRecurse(st, rest \o <<back>>, fuel - 1)

\* The steps one next() can take without yielding, at most.
AdvanceBudget == 4 * (NumLists + NumLeaves + MaxOps + 1)

\* next(generator) on heap st: the generator afterwards.
NextOfGenerator(st, g) ==
    LET first == IF g.kind = "recurse" THEN RecurseFrame(g.node)
                                       ELSE NewFrame(st, g.node)
        stack == IF g.phase = "created" THEN <<first>> ELSE g.stack
        prompt == IF g.phase = "created" THEN st.ch = g.heap ELSE g.prompt
        a == IF g.kind = "recurse"
             THEN AdvanceRecurse(st, stack, AdvanceBudget)
             ELSE Advance(st, stack, g.top_down, AdvanceBudget)
    IN CASE a.yielded = None ->
              [g EXCEPT !.phase = "done", !.stack = <<>>, !.prompt = prompt]
         [] a.yielded = Overflow ->
              [g EXCEPT !.phase = "failed", !.stack = <<>>, !.prompt = prompt]
         [] OTHER ->
              [g EXCEPT !.phase = "running", !.stack = a.stack,
                        !.out = g.out \o <<a.yielded>>, !.prompt = prompt]

(***************************************************************************)
(* The program: a fixed set of nodes, mutated through the public API       *)
(***************************************************************************)

MaxIndex == 2

IndexArgs == (0 - MaxIndex)..MaxIndex
SliceArgs == 0..MaxIndex
Candidates == Nodes \cup {Junk}
CandidateLists == UNION {[1..k -> Candidates] : k \in 0..MaxNew}

Init ==
    /\ children = [c \in Lists |-> <<>>]
    /\ parent = [n \in Nodes |-> None]
    /\ named = [c \in Lists |-> EmptyIndex]
    /\ cached_order = [n \in Nodes |-> <<>>]
    /\ dirty = [n \in Nodes |-> TRUE]
    /\ last = "init"
    /\ steps = 0
    /\ iter = NoGenerator

Commit(op, r) ==
    /\ steps < MaxOps
    /\ steps' = steps + 1
    /\ children' = r.st.ch
    /\ parent' = r.st.par
    /\ named' = r.st.nm
    /\ cached_order' = r.st.ord
    /\ dirty' = r.st.drt
    /\ last' = r.err
    /\ iter' = iter

DoSetItem ==
    \E c \in Lists, i \in IndexArgs, x \in Candidates :
        Commit("setitem", SetItemInt(State, c, i, x))

SetSliceOf(lists) ==
    \E c \in Lists, s \in SliceArgs, e \in SliceArgs, xs \in lists :
        Commit("setslice", SetItemSlice(State, c, s, e, xs))

DoSetSlice == SetSliceOf(CandidateLists)

DoDelItem ==
    \E c \in Lists, i \in IndexArgs :
        Commit("delitem", DelItemInt(State, c, i))

DoDelSlice ==
    \E c \in Lists, s \in SliceArgs, e \in SliceArgs :
        Commit("delslice", DelItemSlice(State, c, s, e))

DoDelName ==
    \E c \in Lists, N \in Names :
        IF named[c][N] = {}
        THEN Commit("delname", DelItemName(State, c, N, <<>>))
        ELSE \E order \in Orderings(named[c][N]) :
                Commit("delname", DelItemName(State, c, N, order))

DoAppend ==
    \E c \in Lists, x \in Candidates :
        Commit("append", AppendNode(State, c, x))

ExtendOf(lists) ==
    \E c \in Lists, xs \in lists :
        Commit("extend", Extend(State, c, xs))

DoExtend == ExtendOf(CandidateLists)

ConstructOf(lists) ==
    \E c \in Lists, xs \in lists :
        /\ Fresh(State, c)
        /\ Commit("init", Construct(State, c, xs))

DoConstruct == ConstructOf(CandidateLists)

DoInsert ==
    \E c \in Lists, i \in IndexArgs, x \in Candidates :
        Commit("insert", Insert(State, c, i, x))

DoPop ==
    \E c \in Lists, i \in IndexArgs :
        Commit("pop", Pop(State, c, i))

DoRemove ==
    \E c \in Lists, x \in Nodes :
        Commit("remove", Remove(State, c, x))

Next ==
    \/ DoSetItem
    \/ DoSetSlice
    \/ DoDelItem
    \/ DoDelSlice
    \/ DoDelName
    \/ DoAppend
    \/ DoExtend
    \/ DoConstruct
    \/ DoInsert
    \/ DoPop
    \/ DoRemove

Spec == Init /\ [][Next]_vars

\* The same program driven only with candidate lists that name no node twice.
Distinct(xs) == \A i, j \in 1..Len(xs) : xs[i] = xs[j] => i = j

DistinctLists == {xs \in CandidateLists : Distinct(xs)}

DoSetSliceDistinct == SetSliceOf(DistinctLists)

DoExtendDistinct == ExtendOf(DistinctLists)

DoConstructDistinct == ConstructOf(DistinctLists)

NextUnique ==
    \/ DoSetItem
    \/ DoSetSliceDistinct
    \/ DoDelItem
    \/ DoDelSlice
    \/ DoDelName
    \/ DoAppend
    \/ DoExtendDistinct
    \/ DoConstructDistinct
    \/ DoInsert
    \/ DoPop
    \/ DoRemove

SpecUnique == Init /\ [][NextUnique]_vars

\* The same program with its reads of graph_order: a few mutations, and
\* between them any number of reads (a read changes only the cache).
Observe(r) ==
    /\ children' = r.st.ch
    /\ parent' = r.st.par
    /\ named' = r.st.nm
    /\ cached_order' = r.st.ord
    /\ dirty' = r.st.drt
    /\ last' = r.err
    /\ iter' = iter
    /\ steps' = steps

DoGraphOrder ==
    \E n \in Nodes : Observe(ReadGraphOrder(State, n))

DoGetItemName ==
    \E c \in Lists, N \in Names : Observe(GetItemName(State, c, N))

DoGetItem ==
    \E c \in Lists, i \in IndexArgs : Observe(GetItemInt(State, c, i))

DoContains ==
    \E c \in Lists :
        \/ \E x \in Nodes : Observe(Pure(State, Truth(ContainsNode(State, c, x))))
        \/ \E N \in Names : Observe(Pure(State, Truth(ContainsName(State, c, N))))

DoIndex ==
    \E c \in Lists, x \in Nodes : Observe(IndexOf(State, c, x))

\* depth_first and recurse are generators: the call builds one, and each
\* next() runs it up to its next yield, with other calls in between.  A
\* call binds the one name the program keeps a generator under, so a later
\* call drops the generator made before.
DoCallDepthFirst ==
    /\ iter.made < MaxGenerators
    /\ \E c \in Lists, top_down \in BOOLEAN :
          iter' = [CallDepthFirst(State, c, top_down) EXCEPT !.made = iter.made + 1]
    /\ UNCHANGED <<children, parent, named, cached_order, dirty, last, steps>>

DoCallRecurse ==
    /\ iter.made < MaxGenerators
    /\ \E c \in Lists : iter' = [CallRecurse(State, c) EXCEPT !.made = iter.made + 1]
    /\ UNCHANGED <<children, parent, named, cached_order, dirty, last, steps>>

DoNextOfGenerator ==
    /\ iter.phase \in {"created", "running"}
    /\ iter' = NextOfGenerator(State, iter)
    /\ UNCHANGED <<children, parent, named, cached_order, dirty, last, steps>>

\* len(c), c.children and node.parentage compute a value from the fields.
DoLen ==
    \E c \in Lists : Observe(Pure(State, IF Len(State.ch[c]) >= 0 THEN "ok" ELSE "error"))

DoChildren ==
    \E c \in Lists : Observe(Pure(State, IF State.ch[c] \in Seq(Nodes) THEN "ok" ELSE "error"))

DoParentage ==
    \E n \in Nodes : Observe(Pure(State, IF Parentage(State, n)[1] = n THEN "ok" ELSE "error"))

NextCache ==
    \/ DoSetItem
    \/ DoAppend
    \/ DoInsert
    \/ DoPop
    \/ DoRemove
    \/ DoGraphOrder
    \/ DoGetItemName
    \/ DoGetItem
    \/ DoContains
    \/ DoIndex
    \/ DoLen
    \/ DoChildren
    \/ DoParentage

SpecCache == Init /\ [][NextCache]_vars

\* Every read, at any point between the calls that build a tree and the
\* steps of a traversal; a behaviour makes at most MaxOpsWithReads mutating
\* calls.
DoAppendWithReads ==
    steps < MaxOpsWithReads /\ DoAppend

DoRemoveWithReads ==
    steps < MaxOpsWithReads /\ DoRemove

NextReads ==
    \/ DoAppendWithReads
    \/ DoRemoveWithReads
    \/ DoGraphOrder
    \/ DoGetItemName
    \/ DoGetItem
    \/ DoContains
    \/ DoIndex
    \/ DoLen
    \/ DoChildren
    \/ DoParentage
    \/ DoCallDepthFirst
    \/ DoCallRecurse
    \/ DoNextOfGenerator

SpecReads == Init /\ [][NextReads]_vars

\* The same program with one generator of depth_first or recurse that is
\* consumed step by step while the tree is mutated.
NextIter ==
    \/ DoSetItem
    \/ DoAppend
    \/ DoInsert
    \/ DoPop
    \/ DoRemove
    \/ DoCallDepthFirst
    \/ DoCallRecurse
    \/ DoNextOfGenerator

SpecIter == Init /\ [][NextIter]_vars

(***************************************************************************)
(* Claims                                                                  *)
(***************************************************************************)

\* The places (composite, position) at which node n occurs as a child.
Occurrences(n) ==
    {pl \in Lists \X (1..(MaxNew * (NumLists + NumLeaves) + 1)) :
        pl[2] <= Len(children[pl[1]]) /\ children[pl[1]][pl[2]] = n}

\* C1 (I1, parent/children agreement): for every node n and composite c,
\* n.parent is c if and only if n occurs in c.children; so n.parent is none
\* if and only if n occurs in no children sequence.
C1_ParentChildrenAgree ==
    \A n \in Nodes : \A c \in Lists :
        (parent[n] = c) <=> (n \in Range(children[c]))

\* C2 (I2, single membership): every node occurs at most once in the whole
\* forest: in at most one children sequence and at most once within it.
C2_SingleMembership ==
    \A n \in Nodes : Cardinality(Occurrences(n)) <= 1

\* C3 (I3, acyclicity): a mutation of composite c whose candidate list
\* contains a member of c.parentage (c itself or an ancestor) fails with
\* InvalidChild, whatever the operation and the position of the candidate;
\* and following parent links from any node reaches none within as many
\* steps as there are nodes.
C3_Acyclic ==
    /\ \A n \in Nodes : Len(Parentage(State, n)) <= NumLists + NumLeaves
    /\ \A c \in Lists : \A a \in Range(Parentage(State, c)) :
        /\ InvalidChild(AppendNode(State, c, a).err)
        /\ \A i \in IndexArgs :
              /\ InvalidChild(SetItemInt(State, c, i, a).err)
              /\ InvalidChild(Insert(State, c, i, a).err)
        /\ \A xs \in CandidateLists :
              a \in Range(xs) =>
                /\ InvalidChild(Extend(State, c, xs).err)
                /\ \A s \in SliceArgs, e \in SliceArgs :
                      InvalidChild(SetItemSlice(State, c, s, e, xs).err)

\* C3 witness: a candidate was rejected as a member of the receiver's
\* parentage in a forest that holds a chain of three nodes.
C3_Witness ==
    /\ last = "ParentAsChild"
    /\ \E n \in Nodes : Len(Parentage(State, n)) >= 3

\* C4 (a rejected mutation leaves the state untouched): a step whose
\* mutation fails with InvalidChild changes no children sequence, no parent
\* and no name index.
C4_RejectedUntouched ==
    [][InvalidChild(last') =>
          /\ children' = children
          /\ parent' = parent
          /\ named' = named]_vars

\* C4 witness: a mutation was rejected in a forest with an attached node,
\* and here a list whose second candidate is the offending one, after a valid
\* first candidate, targets a range that holds an old item.
C4_Witness ==
    /\ InvalidChild(last)
    /\ \E c \in Lists : \E xs \in CandidateLists :
          /\ Len(xs) = 2
          /\ children[c] # <<>>
          /\ ValidateSetitemExpr(State, c, <<xs[1]>>) = "ok"
          /\ parent[xs[1]] \notin {None, c}
          /\ InvalidChild(SetItemSlice(State, c, 0, 1, xs).err)

\* seq without the members of the set S
RECURSIVE Without(_, _)
Without(seq, S) ==
    IF seq = <<>>
    THEN <<>>
    ELSE IF Head(seq) \in S
         THEN Without(Tail(seq), S)
         ELSE <<Head(seq)>> \o Without(Tail(seq), S)

\* C5 (range replacement result): for 0 <= start <= stop <= len(S) and a
\* valid list N of distinct candidates, c[start:stop] = N leaves c with
\* (S[0:start] without N), then N, then (S[stop:] without N); the replaced
\* nodes that are not candidates have no parent, the candidates have parent c.
C5_RangeReplaceResult ==
    \A c \in Lists : \A xs \in CandidateLists :
        (Distinct(xs) /\ ValidateSetitemExpr(State, c, xs) = "ok") =>
            \A s \in 0..Len(children[c]) : \A e \in s..Len(children[c]) :
                LET S == children[c]
                    r == SetItemSlice(State, c, s, e, xs)
                IN /\ r.err = "ok"
                   /\ r.st.ch[c] = Without(SubSeq(S, 1, s), Range(xs)) \o xs
                                     \o Without(SubSeq(S, e + 1, Len(S)), Range(xs))
                   /\ \A x \in Range(SubSeq(S, s + 1, e)) \ Range(xs) : r.st.par[x] = None
                   /\ \A x \in Range(xs) : r.st.par[x] = c

\* The proper descendants of c by parent links.
ProperDescendants(st, c) == {m \in Nodes : c \in Ancestors(st, m)}

\* Every name-index entry of composite c, as one set.
Indexed(st, c) == UNION {st.nm[c][N] : N \in Names}

\* C6 (reattachment): for a child n of composite A and another composite B
\* that is neither n nor below n, inserting n under B succeeds; n then has
\* parent B, is in B.children and not in A.children; n and its descendants
\* are in the traversal and name index of B and of every ancestor of B, and
\* in neither for A and the ancestors of A that are not B or ancestors of B.
C6_Reattachment ==
    \A n \in Nodes : \A B \in Lists : \A i \in IndexArgs :
        LET A == parent[n]
        IN (/\ A # None
            /\ A # B
            /\ n \in Range(children[A])
            /\ n \notin Range(Parentage(State, B))) =>
           LET r == Insert(State, B, i, n)
               post == r.st
               moved == {n} \cup ProperDescendants(post, n)
               gainers == {B} \cup Ancestors(post, B)
               losers == ({A} \cup Ancestors(post, A)) \ gainers
           IN /\ r.err = "ok"
              /\ post.par[n] = B
              /\ n \in Range(post.ch[B])
              /\ n \notin Range(post.ch[A])
              /\ \A m \in moved :
                    /\ \A P \in losers :
                          /\ m \notin Range(DepthFirst(post, P, TRUE))
                          /\ m \notin Indexed(post, P)
                    /\ \A Q \in gainers :
                          /\ m \in Range(DepthFirst(post, Q, TRUE))
                          /\ NameOf(m) \in Names => m \in post.nm[Q][NameOf(m)]

\* Strictly ascending by graph_order.
Ascending(st, seq) ==
    \A i, j \in 1..Len(seq) :
        i < j => TupleLess(GraphOrder(st, seq[i]), GraphOrder(st, seq[j]))

\* C7 (name aggregation): for every composite c and name N the index entry
\* c[N] ranges over exactly the proper descendants of c named N, and every
\* result of sorting it by graph_order is strictly ascending (no ties).
C7_NameAggregation ==
    \A c \in Lists : \A N \in Names :
        /\ NamedChildren(State, c, N) = {m \in ProperDescendants(State, c) : NameOf(m) = N}
        /\ \A seq \in SortedByGraphOrder(State, NamedChildren(State, c, N)) :
              Ascending(State, seq)

\* b is a proper prefix of a
ProperPrefix(b, a) == Len(b) < Len(a) /\ SubSeq(a, 1, Len(b)) = b

\* a comes before b in left-to-right post-order: a is below b, or a is left
\* of b where neither is above the other.
PostLess(a, b) ==
    \/ ProperPrefix(b, a)
    \/ ~ProperPrefix(a, b) /\ TupleLess(a, b)

\* C8 (traversal shape): depth_first on composite c yields every proper
\* descendant of c exactly once and never c; top-down in left-to-right
\* pre-order (a node before its children, children in children order),
\* bottom-up in left-to-right post-order (a node after all its children).
C8_TraversalShape ==
    \A c \in Lists :
        LET pre == DepthFirst(State, c, TRUE)
            post == DepthFirst(State, c, FALSE)
        IN /\ Range(pre) = ProperDescendants(State, c)
           /\ Range(post) = ProperDescendants(State, c)
           /\ Distinct(pre) /\ Distinct(post)
           /\ \A i, j \in 1..Len(pre) :
                 i < j => TupleLess(GraphOrder(State, pre[i]), GraphOrder(State, pre[j]))
           /\ \A i, j \in 1..Len(post) :
                 i < j => PostLess(GraphOrder(State, post[i]), GraphOrder(State, post[j]))

\* C9 (order determinism): graph_order of n is the tuple of child positions
\* along the path from its root (empty for a root); no two nodes of one tree
\* have the same graph_order; sorting the proper descendants of a root by
\* graph_order gives exactly depth_first(top_down=true) on the root.
C9_OrderDeterminism ==
    /\ \A n \in Nodes :
          LET path == Parentage(State, n)
              go == GraphOrder(State, n)
          IN /\ Len(go) = Len(path) - 1
             /\ \A k \in 1..Len(go) :
                   LET owner == path[Len(path) - k + 1]
                       member == path[Len(path) - k]
                   IN /\ go[k] >= 0
                      /\ go[k] < Len(children[owner])
                      /\ children[owner][go[k] + 1] = member
                      /\ \A q \in 1..Len(children[owner]) :
                            children[owner][q] = member => q = go[k] + 1
    /\ \A n \in Nodes : \A m \in Tree(State, n) :
          m # n => GraphOrder(State, m) # GraphOrder(State, n)
    /\ \A r \in Lists :
          parent[r] = None =>
              SortedByGraphOrder(State, ProperDescendants(State, r))
                  = {DepthFirst(State, r, TRUE)}

\* C10 (graph-order cache freshness): in every state, whatever mutations and
\* reads came before, a read of graph_order of any node returns the value the
\* structure determines now, and a second read right after it returns the
\* same value; the reads a name lookup makes for its sort see the current
\* values too.
C10_CacheFresh ==
    /\ \A n \in Nodes :
          LET first == ReadGraphOrder(State, n)
              second == ReadGraphOrder(first.st, n)
          IN /\ first.value = GraphOrder(State, n)
             /\ second.value = first.value
    /\ \A c \in Lists : \A N \in Names :
          LET looked == GetItemName(State, c, N)
          IN \A m \in named[c][N] :
                looked.st.ord[m] = GraphOrder(State, m)

\* C10 witness: a node whose cached graph_order was computed before a
\* mutation changed its position is about to be read again.
C10_Witness ==
    \E n \in Nodes :
        /\ dirty[n]
        /\ cached_order[n] # <<>>
        /\ cached_order[n] # GraphOrder(State, n)
        /\ last = "ok"

\* The proper descendants of c that bear the name N.
NamedBelow(st, c, N) == {m \in ProperDescendants(st, c) : NameOf(m) = N}

\* C11 (name-keyed deletion): for a name N in c's index, del c[N] succeeds in
\* whatever order the entry is iterated; every descendant of c named N leaves
\* the children of the parent it had and is then detached or no longer under
\* c; the other children of each affected parent keep their order; no
\* descendant of c is named N any more and N is no key of c's index.  For a
\* name that is no key, del c[N] fails with KeyError and changes nothing.
C11_NameDelete ==
    \A c \in Lists : \A N \in Names :
        IF named[c][N] = {}
        THEN LET r == DelItemName(State, c, N, <<>>)
             IN r.err = "KeyError" /\ r.st = State
        ELSE \A order \in Orderings(named[c][N]) :
                LET r == DelItemName(State, c, N, order)
                    matches == NamedBelow(State, c, N)
                IN /\ r.err = "ok"
                   /\ \A m \in matches :
                         /\ m \notin Range(r.st.ch[parent[m]])
                         /\ r.st.par[m] = None \/ m \notin ProperDescendants(r.st, c)
                         /\ Without(r.st.ch[parent[m]], matches)
                               = Without(children[parent[m]], matches)
                   /\ NamedBelow(r.st, c, N) = {}
                   /\ r.st.nm[c][N] = {}

\* C12 (single-element set): for every index i that positional get accepts
\* (0 <= i < n, or -n <= i <= -1) and a valid detached candidate x, c[i] = x
\* succeeds, leaves the length of c unchanged, detaches the node c[i] returned
\* before, makes c[i] return x and keeps every other child at its position.
C12_SingleSet ==
    \A c \in Lists : \A i \in IndexArgs : \A x \in Nodes :
        (/\ InRange(children[c], i)
         /\ parent[x] = None
         /\ \A p \in Lists : x \notin Range(children[p])
         /\ ValidateSetitemExpr(State, c, <<x>>) = "ok") =>
            LET old == ListGet(children[c], i)
                r == SetItemInt(State, c, i, x)
            IN /\ r.err = "ok"
               /\ Len(r.st.ch[c]) = Len(children[c])
               /\ r.st.par[old] = None
               /\ old \notin Range(r.st.ch[c])
               /\ ListGet(r.st.ch[c], i) = x
               /\ r.st.par[x] = c
               /\ \A k \in 1..Len(children[c]) :
                     k # Position(children[c], i) + 1 => r.st.ch[c][k] = children[c][k]

\* The structure of a heap: children, parents and name indices.
Structure(st) == <<st.ch, st.par, st.nm>>

\* C13 (IndexOutOfRange): for an integer i with i >= n or i < -n, get c[i],
\* set c[i] = x, del c[i] and pop(i) each fail with IndexError and leave every
\* children sequence, parent and name index unchanged.
C13_IndexOutOfRange ==
    \A c \in Lists : \A i \in IndexArgs :
        ~InRange(children[c], i) =>
            /\ GetItemInt(State, c, i).err = "IndexError"
            /\ Structure(GetItemInt(State, c, i).st) = Structure(State)
            /\ Pop(State, c, i).err = "IndexError"
            /\ Structure(Pop(State, c, i).st) = Structure(State)
            /\ DelItemInt(State, c, i).err = "IndexError"
            /\ Structure(DelItemInt(State, c, i).st) = Structure(State)
            /\ \A x \in Candidates :
                  /\ SetItemInt(State, c, i, x).err \notin {"ok"}
                  /\ Structure(SetItemInt(State, c, i, x).st) = Structure(State)

\* C14 (index and remove): for a direct child x of c, c.index(x) is the one
\* position that holds x, and c.remove(x) detaches exactly x, the other
\* children keeping their order; for a node that is no direct child of c
\* (detached, a child elsewhere, or a deeper descendant) both fail with
\* ValueError and nothing changes.
C14_IndexRemove ==
    \A c \in Lists : \A x \in Nodes :
        LET p == Index(State, c, x)
            r == Remove(State, c, x)
        IN IF x \in Range(children[c])
           THEN /\ p >= 0
                /\ children[c][p + 1] = x
                /\ \A q \in 1..Len(children[c]) : children[c][q] = x => q = p + 1
                /\ r.err = "ok"
                /\ r.st.par[x] = None
                /\ x \notin Range(r.st.ch[c])
                /\ r.st.ch[c] = Without(children[c], {x})
                /\ \A y \in Range(children[c]) \ {x} : r.st.par[y] = parent[y]
           ELSE /\ p < 0
                /\ r.err = "NotInList"
                /\ Structure(r.st) = Structure(State)

\* C15 (containment): x in c is true exactly for the direct children of c
\* (the nodes whose parent is c), so false for deeper descendants; N in c is
\* true exactly when some proper descendant of c, at any depth, is named N.
C15_Containment ==
    \A c \in Lists :
        /\ \A x \in Nodes : ContainsNode(State, c, x) <=> (parent[x] = c)
        /\ \A x \in ProperDescendants(State, c) :
              parent[x] # c => ~ContainsNode(State, c, x)
        /\ \A N \in Names : ContainsName(State, c, N) <=> (NamedBelow(State, c, N) # {})

\* C16 (recurse): c.recurse() yields every proper descendant of c exactly
\* once, each composite before its own children, whatever the concrete class
\* of the receiver and of its composite children; its sequence is that of
\* depth_first(top_down=true) on the same receiver.
C16_Recurse ==
    \A c \in Lists :
        LET seq == Recurse(State, c)
        IN /\ Range(seq) = ProperDescendants(State, c)
           /\ Distinct(seq)
           /\ seq = DepthFirst(State, c, TRUE)

\* What append, extend and insert must leave alone: every previous child of c
\* that is no candidate is still a child, with the parent it had, and these
\* children are in the order they had.
PreviousChildrenKept(st, post, c, cands) ==
    /\ Without(post.ch[c], cands) = Without(st.ch[c], cands)
    /\ \A y \in Range(st.ch[c]) \ cands :
          y \in Range(post.ch[c]) /\ post.par[y] = st.par[y]

\* C17 (append, extend, insert): for valid candidates, after c.append(x) the
\* last child of c is x; after c.extend(L) the last len(L) children are L in
\* the order given; after c.insert(i, x) with 0 <= i <= len(c), x is a child
\* of c that stands immediately before the node that was at position i (last
\* for i = len(c)); every previous child that is no candidate is kept.
C17_AppendExtendInsert ==
    \A c \in Lists :
        /\ \A x \in Nodes :
              ValidateSetitemExpr(State, c, <<x>>) = "ok" =>
                 /\ LET r == AppendNode(State, c, x)
                    IN /\ r.err = "ok"
                       /\ r.st.ch[c][Len(r.st.ch[c])] = x
                       /\ r.st.par[x] = c
                       /\ PreviousChildrenKept(State, r.st, c, {x})
                 /\ \A i \in 0..Len(children[c]) :
                       LET r == Insert(State, c, i, x)
                           p == Index(r.st, c, x)
                       IN /\ r.err = "ok"
                          /\ p >= 0
                          /\ r.st.par[x] = c
                          /\ PreviousChildrenKept(State, r.st, c, {x})
                          /\ IF i = Len(children[c])
                             THEN p + 1 = Len(r.st.ch[c])
                             ELSE children[c][i + 1] # x =>
                                     /\ p + 2 <= Len(r.st.ch[c])
                                     /\ r.st.ch[c][p + 2] = children[c][i + 1]
        /\ \A xs \in CandidateLists :
              ValidateSetitemExpr(State, c, xs) = "ok" =>
                 LET r == Extend(State, c, xs)
                     n == Len(r.st.ch[c])
                 IN /\ r.err = "ok"
                    /\ n >= Len(xs)
                    /\ SubSeq(r.st.ch[c], n - Len(xs) + 1, n) = xs
                    /\ \A x \in Range(xs) : r.st.par[x] = c
                    /\ PreviousChildrenKept(State, r.st, c, Range(xs))

\* C18 (positional deletion and pop): for a composite c of length n >= 1 and
\* an index i with -n <= i < n, del c[i] succeeds and removes exactly the
\* node c[i] returned: it gets parent none, c has n - 1 children, the others
\* in the order and with the parent they had; c.pop(i) does the same and
\* returns that node; pop() without argument takes the last child.
C18_DeleteAndPop ==
    \A c \in Lists : \A i \in IndexArgs :
        InRange(children[c], i) =>
            LET old == ListGet(children[c], i)
                k == Position(children[c], i)
                expected == SubSeq(children[c], 1, k)
                               \o SubSeq(children[c], k + 2, Len(children[c]))
                d == DelItemInt(State, c, i)
                p == Pop(State, c, i)
            IN /\ GetItemInt(State, c, i).value = old
               /\ d.err = "ok"
               /\ d.st.par[old] = None
               /\ d.st.ch[c] = expected
               /\ \A y \in Range(expected) : d.st.par[y] = parent[y]
               /\ p.err = "ok"
               /\ Structure(p.st) = Structure(d.st)
               /\ i = 0 - 1 => old = children[c][Len(children[c])]

\* C19 (reads are pure): a step that is a read (building a depth_first or
\* recurse generator or taking its next node, up to exhaustion; positional
\* get, name-keyed get, containment test, index, len, children, parentage,
\* graph_order), whether it returns or fails, changes no children sequence,
\* no parent and no name index.  A read is a step that leaves the count of
\* mutating calls as it was.
C19_ReadsPure ==
    [][steps' = steps =>
          /\ children' = children
          /\ parent' = parent
          /\ named' = named]_vars

\* C19 witness: a traversal was run to exhaustion and yielded two nodes, in
\* a tree whose root indexes a name, after a positional get that failed
\* with IndexError.
C19_Witness ==
    /\ iter.phase = "done"
    /\ Len(iter.out) = 2
    /\ last = "IndexError"
    /\ \E c \in Lists : \E N \in Names : named[c][N] # {}

\* C20 (mutation frame): a successful c[s:e] = N changes, among the children
\* sequences, only that of c and that of each composite that was the parent
\* of a candidate, which loses exactly its candidates; among the parents,
\* only those of the candidates and of the replaced old items; and each
\* detached old item and each moved candidate that is no ancestor of a
\* candidate keeps its own children sequence and its own name index.
C20_MutationFrame ==
    \A c \in Lists : \A xs \in CandidateLists :
        ValidateSetitemExpr(State, c, xs) = "ok" =>
            \A s \in SliceArgs : \A e \in SliceArgs :
                LET n == Len(children[c])
                    cands == Range(xs)
                    old == Range(ListSlice(children[c], ClampIndex(s, n), ClampIndex(e, n)))
                    r == SetItemSlice(State, c, s, e, xs)
                    above == UNION {Ancestors(State, x) : x \in cands}
                IN /\ r.err = "ok"
                   /\ \A p \in Lists \ {c} :
                         r.st.ch[p] = Without(children[p], {x \in cands : parent[x] = p})
                   /\ \A m \in Nodes \ (cands \cup old) : r.st.par[m] = parent[m]
                   /\ \A m \in ((cands \cup old) \cap Lists) \ above :
                         /\ r.st.ch[m] = children[m]
                         /\ r.st.nm[m] = named[m]

\* The number of node objects.
NumNodes == NumLists + NumLeaves

\* C21 (traversals terminate): in every reachable state depth_first in
\* either direction and recurse, started on any composite, run to their end
\* without exceeding the recursion limit and yield at most NumNodes - 1
\* nodes; parentage of any node ends at a root within NumNodes steps; and a
\* second call, on the heap the first call left, yields the same sequence.
C21_TraversalsTerminate ==
    /\ \A c \in Lists :
          /\ \A top_down \in BOOLEAN :
                LET seq == DepthFirst(State, c, top_down)
                    after == Pure(State, Exhausted(seq)).st
                IN /\ Exhausted(seq) = "ok"
                   /\ Len(seq) <= NumNodes - 1
                   /\ DepthFirst(after, c, top_down) = seq
          /\ LET seq == Recurse(State, c)
                 after == Pure(State, Exhausted(seq)).st
             IN /\ Exhausted(seq) = "ok"
                /\ Len(seq) <= NumNodes - 1
                /\ Recurse(after, c) = seq
    /\ \A n \in Nodes :
          LET path == Parentage(State, n)
          IN /\ Len(path) <= NumNodes
             /\ parent[path[Len(path)]] = None

\* C22 (construction is a bulk mutation): building the fresh composite c
\* with the initial list L has the outcome and leaves the children, parents
\* and name indices that c.extend(L) on the empty c leaves; on success every
\* node of L that was a child of another composite is no child of it any
\* more; a list holding a non-node fails with InvalidChild and detaches no
\* node of L.
C22_ConstructionIsExtend ==
    \A c \in Lists : \A xs \in CandidateLists :
        Fresh(State, c) =>
            LET built == Construct(State, c, xs)
                extended == Extend(State, c, xs)
            IN /\ built.err = extended.err
               /\ Structure(built.st) = Structure(extended.st)
               /\ built.err = "ok" =>
                     \A x \in Range(xs) : \A p \in Lists \ {c} :
                         x \in Range(children[p]) => x \notin Range(built.st.ch[p])
               /\ Junk \in Range(xs) =>
                     /\ InvalidChild(built.err)
                     /\ \A x \in Range(xs) \cap Nodes : built.st.par[x] = parent[x]
                     /\ Structure(built.st) = Structure(State)

\* C23 (depth_first reflects a snapshot taken at call time): whatever
\* mutations happen between two steps of one depth_first iteration, the
\* complete sequence it has yielded when it is exhausted is the sequence the
\* call yields on the tree as it was when it was called.
C23_SnapshotAtCall ==
    (iter.kind = "depth_first" /\ iter.phase = "done" /\ iter.prompt)
        => iter.out = iter.atcall

====
